---- MODULE Spec2Model ----
(***************************************************************************)
(* Model of ucode_dump/models/disasm.py: the microcode trace driver.       *)
(*                                                                         *)
(* main(cpuid) loads the Word Store (ucode), the Group Control Store       *)
(* (seqwords) and the Label Table (labels), then walks                     *)
(* filter(lambda x: x % 4 != 3, range(0x7c00)) and prints, per visited     *)
(* address, an optional blank line, an optional label line and one data    *)
(* line.  Strings are sequences of one-character strings, so formatting    *)
(* and trimming are computed, not assumed.                                 *)
(*                                                                         *)
(* The address space of the program is 0x7c00 = 4 * 0x1f00 addresses; the  *)
(* model keeps the quad structure and scales the number of quads.          *)
(***************************************************************************)
EXTENDS Integers, Sequences, FiniteSets, TLC

VARIABLES
    pc,        \* position of main: load_ucode, load_seqwords, load_labels,
               \* loop, done, load_failed, assert_failed, index_error
    cpuid,     \* the --cpuid option (also stored in uasm.cpuid_)
    ucode,     \* Word Store            (line 10)
    seqwords,  \* Group Control Store   (line 11)
    labels,    \* Label Table           (line 12)
    loaded,    \* which of the three local names are bound
    trace,     \* next value the range iterator under the filter will yield
    uaddr,     \* loop variable; NoAddr before the first iteration
    out,       \* standard output, one record per printed line
    reads,     \* store subscripts evaluated so far
    calls      \* uasm decoder invocations made so far

vars == <<pc, cpuid, ucode, seqwords, labels, loaded, trace, uaddr, out, reads, calls>>

----------------------------------------------------------------------------
(* Sizes *)

QuadSize == 4

NumQuads == 5

\* 0x7c00, the end of range(0x7c00) and the bound of the assertion
ProgramAddrLimit == 31744

\* the model's 0x7c00: like ProgramAddrLimit = QuadSize * 0x1f00, a whole
\* number of quads
AddrLimit == QuadSize * NumQuads

NoAddr == 0 - 1

----------------------------------------------------------------------------
(* Python string operations used by main.  A string is a sequence of      *)
(* characters; a character is a one-character string or, where TLA+ has no *)
(* spelling for it, its Python escape as one token ("\\x0b" is U+000B).    *)

\* the characters c with c.isspace(), which str.strip() removes
Whitespace ==
    {" ", "\t", "\n", "\f", "\r",
     "\\x0b", "\\x1c", "\\x1d", "\\x1e", "\\x1f", "\\x85", "\\xa0",
     "\\u1680", "\\u2000", "\\u2001", "\\u2002", "\\u2003", "\\u2004",
     "\\u2005", "\\u2006", "\\u2007", "\\u2008", "\\u2009", "\\u200a",
     "\\u2028", "\\u2029", "\\u202f", "\\u205f", "\\u3000"}

RECURSIVE lstrip(_)
lstrip(s) == IF s # <<>> /\ Head(s) \in Whitespace THEN lstrip(Tail(s)) ELSE s

RECURSIVE rstrip(_)
rstrip(s) ==
    IF s # <<>> /\ s[Len(s)] \in Whitespace
    THEN rstrip(SubSeq(s, 1, Len(s) - 1))
    ELSE s

\* str.strip()
strip(s) == rstrip(lstrip(s))

HexDigits == <<"0", "1", "2", "3", "4", "5", "6", "7",
               "8", "9", "a", "b", "c", "d", "e", "f">>

RECURSIVE ToHex(_)
ToHex(n) ==
    IF n < 16
    THEN <<HexDigits[n + 1]>>
    ELSE ToHex(n \div 16) \o <<HexDigits[(n % 16) + 1]>>

RECURSIVE ZeroPad(_, _)
ZeroPad(s, width) == IF Len(s) >= width THEN s ELSE ZeroPad(<<"0">> \o s, width)

\* format(n, '0<width>x'): lowercase hex, zero-padded to at least width digits
FormatHex(n, width) == ZeroPad(ToHex(n), width)

----------------------------------------------------------------------------
(* Inputs: the --cpuid option and the data the loaders return *)

CpuIds == {"0x000506CA", "0x000506C9"}

CpuIndex == IF cpuid = "0x000506CA" THEN 0 ELSE 1

Addrs == 0 .. (AddrLimit - 1)

\* load_ms_array_str_data(.../ms_array0.txt): one word per address.
\* Dump 1 is the constant store, dump 2 the store of the spec's scenario
\* (address a holds a + 1), dump 3 holds large, pairwise different words.
UcodeDumps ==
    { [a \in Addrs |-> 2147483647],
      [a \in Addrs |-> a + 1],
      [a \in Addrs |-> 11259375 + a * 1048583] }

\* load_ms_array_str_data(.../ms_array1.txt): one control word per address.
\* The first dump aliases the quad's word on all four addresses, the second
\* holds a different word at every index, the third is constant.
SeqwordDumps ==
    { [a \in Addrs |-> 10 + (a \div QuadSize)],
      [a \in Addrs |-> a],
      [a \in Addrs |-> 0] }

\* Addresses labels.csv may name: visited ones, fourth slots, and one
\* outside the address space.
LabelCandidates == {0, 3, QuadSize, QuadSize + 2, AddrLimit - 1, AddrLimit}

LabelName(a) == <<"L">> \o ToHex(a)

\* load_labels(labels.csv): a dict from address to name
LabelTables == { [a \in S |-> LabelName(a)] : S \in SUBSET LabelCandidates }

----------------------------------------------------------------------------
(* The uasm decoders: opaque, pure, total, deterministic.  Their results   *)
(* may carry surrounding whitespace and may be empty.                      *)

MnemonicTable ==
    << <<"O", "P">>,
       <<" ", "M", "O", "V", " ", "r", "1", " ">>,
       <<>>,
       <<"\t", "N", "O", "P", "\n">>,
       <<" ", " ">>,
       <<"\f", "A", "\\x0b">>,
       <<"\\x1c", "\\x1d", "\\x1e", "\\x85">> >>

AnnotationTable ==
    << <<>>,
       <<" ", "S", "Y", "N", "C", " ">>,
       <<" ">>,
       <<"G", "O", "T", "O", " ", "U", "4">>,
       <<"\n", "W", "A", "I", "T">>,
       <<"\f">>,
       <<"\\xa0", "J", "\\u2003", "K", "\\x1f", "\r">> >>

\* uasm.uop_disassemble(uop, uaddr)
uop_disassemble(uop, addr) ==
    MnemonicTable[(((uop % 7) + addr + CpuIndex) % Len(MnemonicTable)) + 1]

\* uasm.process_seqword(uaddr, uop, seqword, before)
process_seqword(addr, uop, seqword, before) ==
    AnnotationTable[((seqword + (IF before THEN 0 ELSE 2) + (uop % 2) + CpuIndex)
                        % Len(AnnotationTable)) + 1]

----------------------------------------------------------------------------
(* The pieces of main's loop *)

\* faulty variant: range(0x7c00 + 1)
RangeEnd_OffByOne == AddrLimit + 1

\* range(0x7c00): the values the range yields are 0 .. RangeEnd - 1
RangeEnd == AddrLimit

\* faulty variant: filter(lambda x: True, ...), nothing is dropped
TraceFilter_NoSkip(x) == TRUE

\* faulty variant: the wrong slot of the quad is dropped
TraceFilter_WrongSlot(x) == x % QuadSize # 0

\* lambda x: x % 4 != 3
TraceFilter(x) == x % QuadSize # 3

\* assert(uaddr < 0x7c00)
AssertHolds(addr) == addr < AddrLimit

\* faulty variant: the 'and uaddr > 0' is missing
SeparatorDue_EveryQuad(addr) == addr % QuadSize = 0

\* uaddr % 4 == 0 and uaddr > 0
SeparatorDue(addr) == addr % QuadSize = 0 /\ addr > 0

\* faulty variant: ucode subscripted with the quad base
UopIndex_QuadBase(addr) == (addr \div QuadSize) * QuadSize

\* the subscript of ucode[uaddr]
UopIndex(addr) == addr

\* faulty variant: seqwords[uaddr]
SeqwordIndex_OwnAddress(addr) == addr

\* faulty variant: the quad base rounded up instead of down
SeqwordIndex_RoundUp(addr) == ((addr + QuadSize - 1) \div QuadSize) * QuadSize

\* the subscript of seqwords[uaddr // 4 * 4]
SeqwordIndex(addr) == (addr \div QuadSize) * QuadSize

\* faulty variant: the separator is appended without the emptiness test
BeforeField_AlwaysSeparator(before) == before \o <<" ">>

\* if disasm_seqw_before != "": disasm_seqw_before = f'{disasm_seqw_before} '
BeforeField(before) == IF before # <<>> THEN before \o <<" ">> ELSE before

\* f'{labels[uaddr]}:'
LabelLine(name) == name \o <<":">>

\* f'U{uaddr:04x}: {uop:012x} {disasm_seqw_before}{disasm_uop} {disasm_seqw_after}'
DataLine(addr, uop, before, mnemonic, after) ==
    <<"U">> \o FormatHex(addr, 4) \o <<":", " ">> \o FormatHex(uop, 12) \o <<" ">>
        \o before \o mnemonic \o <<" ">> \o after

\* uaddr in labels
HasLabel(addr) == addr \in DOMAIN labels

BlankPrint(addr) ==
    IF SeparatorDue(addr)
    THEN << [kind |-> "blank", addr |-> addr, text |-> <<>>] >>
    ELSE <<>>

LabelPrint(addr) ==
    IF HasLabel(addr)
    THEN << [kind |-> "label", addr |-> addr, text |-> LabelLine(labels[addr])] >>
    ELSE <<>>

DataPrint(addr, uop, seqword) ==
    LET disasm_uop         == strip(uop_disassemble(uop, addr))
        disasm_seqw_before == strip(process_seqword(addr, uop, seqword, TRUE))
        disasm_seqw_after  == strip(process_seqword(addr, uop, seqword, FALSE))
    IN  << [kind |-> "data", addr |-> addr,
            text |-> DataLine(addr, uop, BeforeField(disasm_seqw_before),
                              disasm_uop, disasm_seqw_after)] >>

\* faulty variant: the two prints in the other order
BodyPrints_LabelAfterData(addr, uop, seqword) ==
    DataPrint(addr, uop, seqword) \o LabelPrint(addr)

\* what one iteration prints once both subscripts succeeded (lines 32-34)
BodyPrints(addr, uop, seqword) == LabelPrint(addr) \o DataPrint(addr, uop, seqword)

DecoderCalls(addr, uop, seqword) ==
    { [fn |-> "uop_disassemble", uaddr |-> addr, uop |-> uop,
       seqword |-> 0, before |-> FALSE],
      [fn |-> "process_seqword", uaddr |-> addr, uop |-> uop,
       seqword |-> seqword, before |-> TRUE],
      [fn |-> "process_seqword", uaddr |-> addr, uop |-> uop,
       seqword |-> seqword, before |-> FALSE] }

\* faulty variant: the exception is swallowed and main goes on to the loop
OnLoadError_Swallowed == "loop"

\* where main goes when a loader raises: the exception leaves main
OnLoadError == "load_failed"

----------------------------------------------------------------------------
(* The state machine *)

Init ==
    /\ pc = "load_ucode"
    /\ cpuid \in CpuIds
    /\ ucode = <<>>
    /\ seqwords = <<>>
    /\ labels = <<>>
    /\ loaded = {}
    /\ trace = 0
    /\ uaddr = NoAddr
    /\ out = <<>>
    /\ reads = {}
    /\ calls = {}

\* line 10, the loader returns
LoadUcode ==
    /\ pc = "load_ucode"
    /\ ucode' \in UcodeDumps
    /\ loaded' = loaded \cup {"ucode"}
    /\ pc' = "load_seqwords"
    /\ UNCHANGED <<cpuid, seqwords, labels, trace, uaddr, out, reads, calls>>

\* line 11, the loader returns
LoadSeqwords ==
    /\ pc = "load_seqwords"
    /\ seqwords' \in SeqwordDumps
    /\ loaded' = loaded \cup {"seqwords"}
    /\ pc' = "load_labels"
    /\ UNCHANGED <<cpuid, ucode, labels, trace, uaddr, out, reads, calls>>

\* line 12, the loader returns; line 14 builds the (lazy) filter
LoadLabels ==
    /\ pc = "load_labels"
    /\ labels' \in LabelTables
    /\ loaded' = loaded \cup {"labels"}
    /\ pc' = "loop"
    /\ UNCHANGED <<cpuid, ucode, seqwords, trace, uaddr, out, reads, calls>>

\* lines 10-12, the loader raises
LoadFails ==
    /\ pc \in {"load_ucode", "load_seqwords", "load_labels"}
    /\ pc' = OnLoadError
    /\ UNCHANGED <<cpuid, ucode, seqwords, labels, loaded, trace, uaddr, out, reads, calls>>

\* the filter drops a value of the range: the loop body does not run
Skip ==
    /\ pc = "loop"
    /\ trace < RangeEnd
    /\ ~TraceFilter(trace)
    /\ trace' = trace + 1
    /\ UNCHANGED <<pc, cpuid, ucode, seqwords, labels, loaded, uaddr, out, reads, calls>>

\* one iteration of the loop body, lines 16-34
Visit ==
    /\ pc = "loop"
    /\ trace < RangeEnd
    /\ TraceFilter(trace)
    /\ uaddr' = trace
    /\ trace' = trace + 1
    /\ UNCHANGED <<cpuid, ucode, seqwords, labels, loaded>>
    /\ LET a  == trace
           ui == UopIndex(a)
           si == SeqwordIndex(a)
       IN  IF ~AssertHolds(a)
           THEN /\ pc' = "assert_failed"
                /\ UNCHANGED <<out, reads, calls>>
           ELSE IF ui \notin DOMAIN ucode
           THEN /\ pc' = "index_error"
                /\ out' = out \o BlankPrint(a)
                /\ reads' = reads \cup {<<"ucode", ui>>}
                /\ UNCHANGED calls
           ELSE IF si \notin DOMAIN seqwords
           THEN /\ pc' = "index_error"
                /\ out' = out \o BlankPrint(a)
                /\ reads' = reads \cup {<<"ucode", ui>>, <<"seqwords", si>>}
                /\ UNCHANGED calls
           ELSE /\ pc' = "loop"
                /\ out' = out \o BlankPrint(a) \o BodyPrints(a, ucode[ui], seqwords[si])
                /\ reads' = reads \cup {<<"ucode", ui>>, <<"seqwords", si>>}
                /\ calls' = calls \cup DecoderCalls(a, ucode[ui], seqwords[si])

\* the range is exhausted: the loop and main end
Finish ==
    /\ pc = "loop"
    /\ trace >= RangeEnd
    /\ pc' = "done"
    /\ UNCHANGED <<cpuid, ucode, seqwords, labels, loaded, trace, uaddr, out, reads, calls>>

Next == LoadUcode \/ LoadSeqwords \/ LoadLabels \/ LoadFails \/ Skip \/ Visit \/ Finish

Spec == Init /\ [][Next]_vars

\* main is one sequential thread: a step that can be taken is taken
FairSpec == Spec /\ WF_vars(Next)

----------------------------------------------------------------------------
(* Vocabulary of the properties.  These definitions restate the spec's     *)
(* terms on their own, without using the operators that model main.        *)

Lines == 1 .. Len(out)

IsBlank(i) == out[i].text = <<>>

IsLabel(i) == out[i].kind = "label"

IsData(i) == out[i].kind = "data"

\* base(a) = a - (a mod 4)
SpecBase(a) == a - (a % 4)

\* the addresses the spec says are visited
SpecVisited == { a \in 0 .. (AddrLimit - 1) : a % 4 # 3 }

\* fourth slots, inside the address space and just beyond it
FourthSlots == { a \in 0 .. (AddrLimit + QuadSize) : a % 4 = 3 }

AllLoaded == {"ucode", "seqwords", "labels"}

LowerHex == {"0", "1", "2", "3", "4", "5", "6", "7",
             "8", "9", "a", "b", "c", "d", "e", "f"}

HexValue(c) == CHOOSE v \in 0 .. 15 : HexDigits[v + 1] = c

RECURSIVE ParseHex(_)
ParseHex(s) ==
    IF s = <<>> THEN 0
    ELSE 16 * ParseHex(SubSeq(s, 1, Len(s) - 1)) + HexValue(s[Len(s)])

IsHexField(s, width) == Len(s) = width /\ \A k \in 1 .. width : s[k] \in LowerHex

\* the annotations and the mnemonic of 4.5 d, e, f for address a
SpecWord(a) == ucode[a]

SpecControl(a) == seqwords[SpecBase(a)]

SpecBefore(a) == strip(process_seqword(a, SpecWord(a), SpecControl(a), TRUE))

SpecMnemonic(a) == strip(uop_disassemble(SpecWord(a), a))

SpecAfter(a) == strip(process_seqword(a, SpecWord(a), SpecControl(a), FALSE))

\* length of "Uaaaa: wwwwwwwwwwww ", the fixed fields of a data line
FieldsStart == 1 + 4 + 2 + 12 + 1

\* the part of a data line after the fixed fields
Rest(i) == SubSeq(out[i].text, FieldsStart + 1, Len(out[i].text))

----------------------------------------------------------------------------
(* C1 *)

\* C1: an address a with a mod 4 == 3 is never visited: no emitted line
\* belongs to it (no data line starts with its "Uaaaa:" prefix, no label line
\* carries its label), neither store is subscripted with it, no decoder is
\* called with it, and the loop variable never holds it; also when the Label
\* Table has an entry for it.
C1_FourthSlotNeverVisited ==
    \A a \in FourthSlots :
        /\ uaddr # a
        /\ \A i \in Lines :
              /\ out[i].addr # a
              /\ Len(out[i].text) >= 6 =>
                    SubSeq(out[i].text, 1, 6) # <<"U">> \o FormatHex(a, 4) \o <<":">>
              /\ a \in DOMAIN labels => out[i].text # labels[a] \o <<":">>
        /\ <<"ucode", a>> \notin reads
        /\ <<"seqwords", a>> \notin reads
        /\ \A c \in calls : c.uaddr # a

C1_Witness ==
    /\ pc = "done"
    /\ trace = AddrLimit
    /\ {3, AddrLimit - 1} \subseteq DOMAIN labels
    /\ Len(out) > 0

----------------------------------------------------------------------------
(* C2 *)

\* C2: every group-control decode, before and after, of a visited address a
\* receives seqwords[a - (a mod 4)]: the Group Control Store is subscripted
\* only at quad bases, both phases of one address get the same control word,
\* and the visited addresses of one quad all get their base's control word,
\* whatever the store holds at the other indices.
C2_ControlWordOfQuadBase ==
    /\ \A r \in reads : r[1] = "seqwords" => r[2] % 4 = 0
    /\ \A c \in calls :
          c.fn = "process_seqword" =>
              /\ c.seqword = seqwords[SpecBase(c.uaddr)]
              /\ <<"seqwords", SpecBase(c.uaddr)>> \in reads
              /\ \E d \in calls : /\ d.fn = "process_seqword"
                                  /\ d.uaddr = c.uaddr
                                  /\ d.before # c.before
                                  /\ d.seqword = c.seqword
    /\ \A c, d \in calls :
          /\ c.fn = "process_seqword"
          /\ d.fn = "process_seqword"
          /\ SpecBase(c.uaddr) = SpecBase(d.uaddr)
          => c.seqword = d.seqword
    /\ \A i \in Lines : IsData(i) =>
          \E c \in calls : /\ c.fn = "process_seqword"
                           /\ c.uaddr = out[i].addr
                           /\ c.seqword = seqwords[SpecBase(out[i].addr)]

C2_Witness ==
    /\ pc = "done"
    /\ seqwords[1] # seqwords[0]
    /\ seqwords[QuadSize + 2] # seqwords[QuadSize]
    /\ \E c \in calls : c.fn = "process_seqword" /\ c.uaddr = QuadSize + 2 /\ c.before
    /\ \E c \in calls : c.fn = "process_seqword" /\ c.uaddr = QuadSize + 2 /\ ~c.before

----------------------------------------------------------------------------
(* C3 *)

BlankLines == { i \in Lines : IsBlank(i) }

FirstLineOfAddress(i) == i = 1 \/ out[i - 1].addr # out[i].addr

\* C3: a blank line is the first line emitted for an address a with
\* a mod 4 == 0 and a > 0, it directly follows the previous address's data
\* line and is directly followed by a's label line or data line; every such
\* address gets exactly one; none is emitted for address 0 or for a mod 4 in
\* {1, 2}, none ends the output, and a full run holds NumQuads - 1 of them.
C3_BlankLineBeforeEachLaterQuad ==
    /\ \A i \in BlankLines :
          /\ out[i].kind = "blank"
          /\ out[i].addr % 4 = 0
          /\ out[i].addr > 0
          /\ i > 1
          /\ IsData(i - 1)
          /\ out[i - 1].addr < out[i].addr
          /\ i < Len(out)
          /\ ~IsBlank(i + 1)
          /\ out[i + 1].addr = out[i].addr
    /\ \A i \in Lines :
          FirstLineOfAddress(i) =>
              (IsBlank(i) <=> (out[i].addr % 4 = 0 /\ out[i].addr > 0))
    /\ \A i \in Lines :
          Cardinality({ j \in BlankLines : out[j].addr = out[i].addr })
              = (IF out[i].addr % 4 = 0 /\ out[i].addr > 0 THEN 1 ELSE 0)
    /\ pc = "done" => Cardinality(BlankLines) = NumQuads - 1

C3_Witness ==
    /\ pc = "done"
    /\ QuadSize \in DOMAIN labels
    /\ \E i \in BlankLines : IsLabel(i + 1) /\ IsData(i + 2)
    /\ \E i \in BlankLines : IsData(i + 1)

----------------------------------------------------------------------------
(* C4 *)

LabelLinesOf(a) == { i \in Lines : IsLabel(i) /\ out[i].addr = a }

DataLinesOf(a) == { i \in Lines : IsData(i) /\ out[i].addr = a }

\* C4: a label line is the name of a Label Table entry followed by ':'; the
\* line right after it is the data line of the same address; a data line is
\* preceded by a label line exactly when its address has an entry; an entry's
\* label line is emitted once if its address has been visited and never
\* otherwise, so entries on fourth slots or outside [0, AddrLimit) print
\* nothing.
C4_LabelLineIffLabelledVisited ==
    /\ \A i \in Lines :
          IsLabel(i) =>
              /\ out[i].addr \in DOMAIN labels
              /\ out[i].text = labels[out[i].addr] \o <<":">>
              /\ i < Len(out)
              /\ IsData(i + 1)
              /\ out[i + 1].addr = out[i].addr
    /\ \A i \in Lines :
          IsData(i) =>
              (out[i].addr \in DOMAIN labels
                  <=> (i > 1 /\ IsLabel(i - 1) /\ out[i - 1].addr = out[i].addr))
    /\ \A a \in DOMAIN labels :
          /\ Cardinality(LabelLinesOf(a)) = (IF DataLinesOf(a) # {} THEN 1 ELSE 0)
          /\ (a % 4 = 3 \/ a \notin 0 .. (AddrLimit - 1)) =>
                \A i \in Lines : out[i].text # labels[a] \o <<":">>
    /\ \A a \in DOMAIN labels :
          (pc = "done" /\ a \in SpecVisited) => Cardinality(LabelLinesOf(a)) = 1

C4_Witness ==
    /\ pc = "done"
    /\ DOMAIN labels = LabelCandidates
    /\ LabelLinesOf(0) # {}
    /\ LabelLinesOf(QuadSize + 2) # {}

----------------------------------------------------------------------------
(* C5 *)

\* C5: on a data line the text after the word field's closing space starts
\* with the mnemonic itself when the trimmed 'before' annotation is empty, and
\* otherwise with the trimmed annotation, exactly one space, and the mnemonic.
C5_SeparatorOnlyAfterNonEmptyBefore ==
    \A i \in Lines :
        IsData(i) =>
            LET a == out[i].addr
                b == SpecBefore(a)
                m == SpecMnemonic(a)
                r == Rest(i)
            IN  /\ out[i].text[FieldsStart] = " "
                /\ IsHexField(SubSeq(out[i].text, 8, FieldsStart - 1), 12)
                /\ b = <<>> =>
                      /\ Len(r) = Len(m) + 1 + Len(SpecAfter(a))
                      /\ SubSeq(r, 1, Len(m)) = m
                      /\ r[Len(m) + 1] = " "
                /\ b # <<>> =>
                      /\ Len(r) = Len(b) + 1 + Len(m) + 1 + Len(SpecAfter(a))
                      /\ SubSeq(r, 1, Len(b)) = b
                      /\ r[Len(b) + 1] = " "
                      /\ SubSeq(r, Len(b) + 2, Len(b) + 1 + Len(m)) = m

C5_Witness ==
    /\ pc = "done"
    /\ \E i \in Lines : /\ IsData(i)
                        /\ SpecBefore(out[i].addr) = <<>>
                        /\ SpecMnemonic(out[i].addr) # <<>>
                        /\ process_seqword(out[i].addr, SpecWord(out[i].addr),
                                           SpecControl(out[i].addr), TRUE) # <<>>
    /\ \E i \in Lines : /\ IsData(i)
                        /\ SpecBefore(out[i].addr) # <<>>
                        /\ SpecMnemonic(out[i].addr) # <<>>
    /\ \E i \in Lines : /\ IsData(i)
                        /\ process_seqword(out[i].addr, SpecWord(out[i].addr),
                                           SpecControl(out[i].addr), TRUE) = <<"\f">>
                        /\ SpecBefore(out[i].addr) = <<>>
                        /\ uop_disassemble(SpecWord(out[i].addr), out[i].addr)
                               = <<"\f", "A", "\\x0b">>
                        /\ Rest(i)[1] = "A"

----------------------------------------------------------------------------
(* C6 *)

DataLines == SelectSeq(out, LAMBDA l : l.kind = "data")

DataAddrs == { DataLines[k].addr : k \in 1 .. Len(DataLines) }

\* C6: the data lines emitted so far are those of the visited addresses below
\* the driver's current address, one each, in strictly ascending address
\* order, each carrying its own address in its "Uaaaa:" field; at the end of
\* a successful run they are exactly the addresses a in [0, AddrLimit) with
\* a mod 4 != 3.
C6_OneDataLinePerVisitedAscending ==
    /\ \A k \in 1 .. Len(DataLines) :
          /\ DataLines[k].text[1] = "U"
          /\ IsHexField(SubSeq(DataLines[k].text, 2, 5), 4)
          /\ ParseHex(SubSeq(DataLines[k].text, 2, 5)) = DataLines[k].addr
          /\ DataLines[k].text[6] = ":"
    /\ \A j, k \in 1 .. Len(DataLines) :
          j < k => DataLines[j].addr < DataLines[k].addr
    /\ DataAddrs = { a \in SpecVisited : a < trace }
    /\ pc = "done" =>
          /\ DataAddrs = SpecVisited
          /\ Len(DataLines) = Cardinality(SpecVisited)

C6_Witness ==
    /\ pc = "done"
    /\ Len(DataLines) = 3 * NumQuads
    /\ DataLines[1].addr = 0
    /\ DataLines[Len(DataLines)].addr = AddrLimit - 2

----------------------------------------------------------------------------
(* C7 *)

Terminal == {"done", "load_failed"}

\* C7: the driver's first visited address is 0, its address advances by 1 per
\* step, it never holds or visits AddrLimit or more, it enters the terminal
\* state exactly when its address is AddrLimit, the step into the terminal
\* state and the terminal state emit nothing, the last line of a finished run
\* is the data line of AddrLimit - 2 (AddrLimit - 1 is a skipped fourth
\* slot, as 0x7bff is in the program's address space), and every run that
\* starts the loop reaches the terminal state.
C7_StartsAtZeroStepsByOneTerminates ==
    /\ [](uaddr = NoAddr => (trace <= 0 /\ out = <<>>))
    /\ [](out # <<>> => out[1].addr = 0)
    /\ [][trace' = trace \/ trace' = trace + 1]_vars
    /\ [][(pc = "loop" /\ pc' = "loop") => trace' = trace + 1]_vars
    /\ [][uaddr' # uaddr => (uaddr' = trace /\ trace' = trace + 1)]_vars
    /\ [](trace <= AddrLimit /\ uaddr < AddrLimit)
    /\ [](\A i \in Lines : out[i].addr < AddrLimit)
    /\ [](pc = "done" => trace = AddrLimit)
    /\ []((pc = "loop" /\ trace = AddrLimit) => ENABLED Finish)
    /\ [][pc' = "done" => out' = out]_vars
    /\ [][pc = "done" => out' = out]_vars
    /\ [](pc = "done" =>
            /\ Len(out) > 0
            /\ IsData(Len(out))
            /\ out[Len(out)].addr = AddrLimit - 2
            /\ (AddrLimit - 1) % 4 = 3
            /\ (ProgramAddrLimit - 1) % 4 = 3
            /\ ProgramAddrLimit % QuadSize = 0
            /\ <<"ucode", AddrLimit - 1>> \notin reads)
    /\ (pc = "loop") ~> (pc = "done")
    /\ <>(pc \in Terminal)

C7_Witness ==
    /\ pc = "done"
    /\ trace = AddrLimit
    /\ uaddr = AddrLimit - 2
    /\ out[Len(out)].addr = AddrLimit - 2

----------------------------------------------------------------------------
(* C8 *)

\* C8: a data line is 'U', the address as 4 lowercase hex digits, ': ', the
\* Word Store value of that same address as 12 lowercase hex digits, ' ',
\* the 'before' field (the trimmed annotation plus one space, or nothing),
\* the trimmed mnemonic decoded from (ucode[a], a), ' ', and the trimmed
\* 'after' annotation; the space before 'after' is there even when 'after'
\* is empty.
C8_DataLineFormat ==
    \A i \in Lines :
        IsData(i) =>
            LET a == out[i].addr
                t == out[i].text
                b == SpecBefore(a)
                f == IF b = <<>> THEN <<>> ELSE b \o <<" ">>
                m == SpecMnemonic(a)
                e == SpecAfter(a)
            IN  /\ Len(t) = FieldsStart + Len(f) + Len(m) + 1 + Len(e)
                /\ t[1] = "U"
                /\ IsHexField(SubSeq(t, 2, 5), 4)
                /\ ParseHex(SubSeq(t, 2, 5)) = a
                /\ SubSeq(t, 6, 7) = <<":", " ">>
                /\ IsHexField(SubSeq(t, 8, 19), 12)
                /\ ParseHex(SubSeq(t, 8, 19)) = ucode[a]
                /\ t[FieldsStart] = " "
                /\ Rest(i) = f \o m \o <<" ">> \o e
                /\ t[Len(t) - Len(e)] = " "
                /\ <<"ucode", a>> \in reads
                /\ [fn |-> "uop_disassemble", uaddr |-> a, uop |-> ucode[a],
                    seqword |-> 0, before |-> FALSE] \in calls

C8_Witness ==
    /\ pc = "done"
    /\ ucode[1] # ucode[0]
    /\ ucode[QuadSize + 1] # ucode[QuadSize]
    /\ \E i \in Lines : /\ IsData(i)
                        /\ out[i].addr % 4 # 0
                        /\ SpecAfter(out[i].addr) = <<>>
                        /\ SpecMnemonic(out[i].addr) # <<>>
                        /\ out[i].text[Len(out[i].text)] = " "

----------------------------------------------------------------------------
(* C9 *)

\* C9: output, visits, store reads and decoder calls happen only once all
\* three loads have returned; a load that fails ends the run there, in a
\* state with no output line, no visited address, no store read and no
\* decoder call, from which nothing further happens.
C9_LoadsFirstFailureEmitsNothing ==
    /\ (pc \in {"loop", "done"} \/ out # <<>> \/ uaddr # NoAddr \/ trace # 0
          \/ reads # {} \/ calls # {})
       => loaded = AllLoaded
    /\ loaded # AllLoaded =>
          pc \in {"load_ucode", "load_seqwords", "load_labels", "load_failed"}
    /\ pc = "load_failed" =>
          /\ loaded # AllLoaded
          /\ out = <<>>
          /\ uaddr = NoAddr
          /\ trace = 0
          /\ reads = {}
          /\ calls = {}
          /\ ~ENABLED Next

C9_Witness ==
    /\ pc = "load_failed"
    /\ loaded = {"ucode", "seqwords"}
    /\ out = <<>>

----------------------------------------------------------------------------
(* C10 *)

\* C10: the assertion never fails and no subscript is out of range: every
\* visited address a has 0 <= a < AddrLimit, the Word Store is subscripted
\* with a, the Group Control Store with base(a), where
\* 0 <= base(a) <= a < AddrLimit and base(a) mod 4 == 0, and both subscripts
\* are indices of the stores.
C10_NoInvariantViolation ==
    /\ pc \notin {"assert_failed", "index_error"}
    /\ uaddr # NoAddr => (0 <= uaddr /\ uaddr < AddrLimit)
    /\ \A c \in calls :
          /\ 0 <= SpecBase(c.uaddr)
          /\ SpecBase(c.uaddr) <= c.uaddr
          /\ c.uaddr < AddrLimit
          /\ SpecBase(c.uaddr) % 4 = 0
          /\ <<"ucode", c.uaddr>> \in reads
          /\ <<"seqwords", SpecBase(c.uaddr)>> \in reads
    /\ \A r \in reads :
          /\ 0 <= r[2]
          /\ r[2] < AddrLimit
          /\ r[1] = "ucode" => r[2] \in DOMAIN ucode
          /\ r[1] = "seqwords" =>
                /\ r[2] \in DOMAIN seqwords
                /\ r[2] % 4 = 0
                /\ \E c \in calls : SpecBase(c.uaddr) = r[2]

C10_Witness ==
    /\ pc = "done"
    /\ uaddr = AddrLimit - 2
    /\ <<"ucode", AddrLimit - 2>> \in reads
    /\ <<"seqwords", AddrLimit - QuadSize>> \in reads

====
